---- MODULE Spec2Model ----
(***************************************************************************)
(* Model of the BIST-30 heatmap script (src/app.py): the return            *)
(* calculator, the market-cap resolution, and one script run from the      *)
(* sidebar selection to the chart and the data table, with the two         *)
(* st.cache_data caches that survive from one run to the next.             *)
(*                                                                         *)
(* Numbers: closes, shares and caps are small integers; a return is the    *)
(* exact rational <<numerator, denominator>> (denominator > 0, lowest      *)
(* terms), so (last / past) - 1 is computed without rounding.              *)
(***************************************************************************)
EXTENDS Integers, Sequences, FiniteSets, TLC

\* ---------------------------------------------------------------- bounds
\* Dates of the return-calculator inputs are 0..MaxDate (calendar days).
MaxDate == 4
\* Closes of the return-calculator inputs are 0..MaxPrice, or missing.
MaxPrice == 2
\* Lookbacks of the return-calculator inputs are 0..MaxDays.
MaxDays == 5
\* Numeric snapshot fields of the cap-resolution inputs are -1..MaxCap.
MaxCap == 2
\* The script runs model the first NumTickers entries of the registry.
NumTickers == 2

\* ------------------------------------------------------- python values
\* A value of a provider dict: None, a number, or a non-numeric string.
PyNone == [t |-> "None", v |-> 0]
PyNum(n) == [t |-> "num", v |-> n]
PyStr == [t |-> "str", v |-> 0]
\* np.nan, the MarketCap of a row whose cap is missing or not positive.
PyNaN == [t |-> "nan", v |-> 0]

\* bool(x) of a provider value: None and 0 are falsy, a non-empty string
\* and a non-zero number are truthy.
Truthy(x) == x.t = "str" \/ (x.t = "num" /\ x.v # 0)

\* An optional result: None is <<>>, a return is <<n, d>>.
None == <<>>

\* ------------------------------------------------------------ rationals
Abs(n) == IF n < 0 THEN -n ELSE n

RECURSIVE GCD(_, _)
GCD(a, b) == IF b = 0 THEN a ELSE GCD(b, a % b)

\* n / d in lowest terms with a positive denominator (d # 0).
Norm(n, d) ==
    LET g == GCD(Abs(n), Abs(d))
        s == IF d < 0 THEN -1 ELSE 1
    IN  <<(s * n) \div g, (s * d) \div g>>

RatMinusOne(r) == Norm(r[1] - r[2], r[2])
RatAbs(r) == <<Abs(r[1]), r[2]>>
RatLeq(r, s) == r[1] * s[2] <= s[1] * r[2]
RatNeg(r) == <<-r[1], r[2]>>
Zero == <<0, 1>>

\* n / d (d > 0) rounded to the nearest integer, ties to even (numpy round).
RoundInt(n, d) ==
    LET q == n \div d
        r == n % d
    IN  IF 2 * r < d THEN q
        ELSE IF 2 * r > d THEN q + 1
        ELSE IF q % 2 = 0 THEN q ELSE q + 1

\* r.round(2): r rounded to two decimals, as a rational.
Round2(r) == Norm(RoundInt(r[1] * 100, r[2]), 100)

\* ------------------------------------------------------ compute_return
\* A price series is a sequence of [date, close], dates ascending and
\* unique as the provider's DatetimeIndex is; close is <<p>> or <<>> (NaN).
\* The argument of compute_return is the series or Python's None.
PySeries(s) == [none |-> FALSE, data |-> s]
PyNoSeries == [none |-> TRUE, data |-> <<>>]

\* series.dropna()
dropna(s) == SelectSeq(s, LAMBDA p: p.close # <<>>)

\* series.index.max()
IndexMax(s) == CHOOSE d \in {s[k].date : k \in 1..Len(s)} :
                   \A k \in 1..Len(s) : s[k].date <= d

\* series.loc[:target_date] on an ascending index: the rows up to and
\* including target_date.
loc_upto_strict(s, target_date) == SelectSeq(s, LAMBDA p: p.date < target_date)
loc_upto(s, target_date) == SelectSeq(s, LAMBDA p: p.date <= target_date)

\* .tail(1): the last row, if any.
tail1_first(s) == IF s = <<>> THEN <<>> ELSE <<s[1]>>
tail1(s) == IF s = <<>> THEN <<>> ELSE <<s[Len(s)]>>

\* series.loc[last_date] (the index is unique: one scalar).
loc_at(s, d) == (CHOOSE k \in 1..Len(s) : s[k].date = d)

compute_return(arg, days_back) ==
    IF arg.none \/ dropna(arg.data) = <<>> THEN None
    ELSE LET series == dropna(arg.data)
             last_date == IndexMax(series)
             target_date == last_date - days_back
             past_row == tail1(loc_upto(series, target_date))
         IN  IF past_row = <<>> THEN None
             ELSE LET past_price == past_row[1].close[1]
                      last_price == series[loc_at(series, last_date)].close[1]
                  IN  IF past_price = 0 THEN None
                      ELSE RatMinusOne(Norm(last_price, past_price))

\* ------------------------------------------------- market-cap resolution
\* The provider's answers for one symbol. ok = FALSE: the lookup raised.
FastRaises == [ok |-> FALSE, market_cap |-> PyNone,
               shares_outstanding |-> PyNone, last_price |-> PyNone]
InfoRaises == [ok |-> FALSE, marketCap |-> PyNone,
               sharesOutstanding |-> PyNone, regularMarketPrice |-> PyNone]

\* fetch_fast_info, given what t.fast_info and t.info answer. fi.get(k) of
\* an absent key is None, so the dict is a record whose absent keys are None.
fetch_fast_info(fast, info) ==
    LET fi == IF fast.ok
              THEN [market_cap |-> fast.market_cap,
                    shares_outstanding |-> fast.shares_outstanding,
                    last_price |-> fast.last_price]
              ELSE [market_cap |-> PyNone, shares_outstanding |-> PyNone,
                    last_price |-> PyNone]
    IN  IF ~Truthy(fi.market_cap) /\ info.ok
        THEN [market_cap |-> info.marketCap,
              shares_outstanding |->
                  IF ~Truthy(fi.shares_outstanding)
                  THEN info.sharesOutstanding ELSE fi.shares_outstanding,
              last_price |->
                  IF ~Truthy(fi.last_price)
                  THEN info.regularMarketPrice ELSE fi.last_price]
        ELSE fi

\* Lines 163-170: mcap = fi.get("market_cap"), approximated by
\* float(shares) * float(last_price) when it is falsy and both are truthy.
\* float() of a non-numeric string raises ValueError.
ApproxCap(fi) ==
    LET mcap == fi.market_cap
        shares == fi.shares_outstanding
        last_price == fi.last_price
    IN  IF ~Truthy(mcap) /\ Truthy(shares) /\ Truthy(last_price)
        THEN IF shares.t = "str" \/ last_price.t = "str"
             THEN [raised |-> "ValueError", mcap |-> PyNone]
             ELSE [raised |-> "", mcap |-> PyNum(shares.v * last_price.v)]
        ELSE [raised |-> "", mcap |-> mcap]

\* Line 176: mcap if mcap and mcap > 0 else np.nan. A string compared with
\* 0 raises TypeError.
RowCapAnySign(mcap) ==
    IF ~Truthy(mcap) THEN [raised |-> "", mcap |-> PyNaN]
    ELSE IF mcap.t = "str" THEN [raised |-> "TypeError", mcap |-> PyNone]
    ELSE [raised |-> "", mcap |-> mcap]
RowCap(mcap) ==
    IF ~Truthy(mcap) THEN [raised |-> "", mcap |-> PyNaN]
    ELSE IF mcap.t = "str" THEN [raised |-> "TypeError", mcap |-> PyNone]
    ELSE IF mcap.v > 0 THEN [raised |-> "", mcap |-> mcap]
    ELSE [raised |-> "", mcap |-> PyNaN]

\* Lines 163-176 for one symbol: the MarketCap of its row, or the exception.
MarketCapOf(fi) ==
    LET a == ApproxCap(fi)
    IN  IF a.raised # "" THEN a ELSE RowCap(a.mcap)

\* ------------------------------------------------------ static tables
\* The head of TICKERS (lines 16-47); the runs use its first NumTickers rows.
Registry == << <<"AKBNK.IS", "Akbank">>, <<"ARCLK.IS", "Arcelik">>,
               <<"ASELS.IS", "Aselsan">>, <<"BIMAS.IS", "BIM">> >>
TICKERS == [k \in 1..NumTickers |-> Registry[k]]
Symbols == {TICKERS[k][1] : k \in 1..NumTickers}
NameOf(sym) == TICKERS[CHOOSE k \in 1..NumTickers : TICKERS[k][1] = sym][2]
DEFAULT_SELECTION == [k \in 1..NumTickers |-> TICKERS[k][1]]

LOOKBACK_DAYS ==
    ("1 Day" :> 1) @@ ("5 Day" :> 5) @@ ("1 Month" :> 30) @@
    ("3 Months" :> 90) @@ ("6 Months" :> 180) @@ ("1 Year" :> 365)
Labels == DOMAIN LOOKBACK_DAYS

\* What st.multiselect returns here: some of the options, in the order of
\* the options (the order of DEFAULT_SELECTION).
Selections ==
    {s \in UNION {[1..n -> Symbols] : n \in 0..NumTickers} :
        \A a, b \in 1..Len(s) : a < b =>
            \E i, j \in 1..NumTickers :
                /\ i < j
                /\ DEFAULT_SELECTION[i] = s[a]
                /\ DEFAULT_SELECTION[j] = s[b]}

\* ------------------------------------------------------- provider feeds
P(d, c) == [date |-> d, close |-> <<c>>]
Missing(d) == [date |-> d, close |-> <<>>]

\* Close columns the download can hold for a symbol of a script run; the
\* dates are day numbers inside the 430-day window asked for at line 144.
HistoryChoices ==
    { <<>>,
      <<P(60, 8), P(395, 2), P(429, 2), P(430, 2)>>,
      <<P(60, 10), Missing(200), P(395, 0), P(429, 4), P(430, 5)>> }

\* Snapshot and extended-info answers for a symbol of a script run.
Fast(m, s, p) ==
    [ok |-> TRUE, market_cap |-> m, shares_outstanding |-> s, last_price |-> p]
Info(m, s, p) ==
    [ok |-> TRUE, marketCap |-> m, sharesOutstanding |-> s,
     regularMarketPrice |-> p]
FastChoices ==
    { FastRaises,
      Fast(PyNum(2), PyNone, PyNone),
      Fast(PyNum(-1), PyNone, PyNone),
      Fast(PyNone, PyNum(1), PyNum(3)),
      Fast(PyNum(0), PyNum(-1), PyNum(3)) }
InfoChoices ==
    { InfoRaises,
      Info(PyNum(0), PyNone, PyNone),
      Info(PyStr, PyNone, PyNone),
      Info(PyNone, PyStr, PyNum(3)) }

\* The narrower feeds of the runs that follow one another on one process.
FewHistories == { <<P(429, 4), P(430, 1)>> }
FewFast == {FastRaises, Fast(PyNum(2), PyNone, PyNone)}
FewInfo == {InfoRaises}
FewLabels == {"1 Day", "1 Month"}

\* ---------------------------------------------------------------- state
VARIABLES
    pc,               \* position of the script run
    interval_label,   \* st.selectbox value
    tickers_selected, \* st.multiselect value (symbols)
    raw,              \* the downloaded frame: symbol -> Close column
    rows,             \* rows appended by the per-symbol loop
    valid,            \* df.dropna(subset=["Return", "MarketCap"])
    max_abs,          \* the colour-scale bound, None before line 190
    warning,          \* st.warning shown
    chart,            \* st.plotly_chart output
    table,            \* st.dataframe output
    exception,        \* the uncaught exception that ended the run
    cache_history,    \* st.cache_data of fetch_history: arguments -> frame
    cache_info,       \* st.cache_data of fetch_fast_info: symbol -> dict
    outlived,         \* cache entries older than the spec's time-to-live
    lastAccess,       \* the last cached call: served from the cache or not
    call              \* a direct call of a pure function and its result

vars == <<pc, interval_label, tickers_selected, raw, rows, valid, max_abs,
          warning, chart, table, exception, cache_history, cache_info,
          outlived, lastAccess, call>>

runVars == <<interval_label, tickers_selected, raw, rows, valid, max_abs,
             warning, chart, table, exception>>

NoFrame == [k \in {} |-> <<>>]
NoCache == [k \in {} |-> <<>>]
NoException == [kind |-> "", line |-> 0]
NoChart == [shown |-> FALSE]
NoTable == [shown |-> FALSE]
NoAccess == [fn |-> "", key |-> <<>>, hit |-> FALSE, outlived |-> FALSE]
NoCall == [fn |-> ""]

Put(cache, key, value) ==
    [k \in DOMAIN cache \cup {key} |-> IF k = key THEN value ELSE cache[k]]

lookback_days == LOOKBACK_DAYS[interval_label]
symbols == tickers_selected

\* A script run is about to start on a process whose caches are empty.
InitRun ==
    /\ pc = "sidebar"
    /\ interval_label = "1 Month"
    /\ tickers_selected = DEFAULT_SELECTION
    /\ raw = NoFrame
    /\ rows = <<>>
    /\ valid = <<>>
    /\ max_abs = None
    /\ warning = FALSE
    /\ chart = NoChart
    /\ table = NoTable
    /\ exception = NoException
    /\ cache_history = NoCache
    /\ cache_info = NoCache
    /\ outlived = [history |-> {}, info |-> {}]
    /\ lastAccess = NoAccess

Init == InitRun /\ call = NoCall

\* Lines 53-79, 143: the widgets return what the user has set (the defaults
\* of lines 58 and 63 until the user touches them).
Sidebar(labels) ==
    /\ pc = "sidebar"
    /\ interval_label' \in labels
    /\ tickers_selected' \in Selections
    /\ pc' = "fetch"
    /\ UNCHANGED <<raw, rows, valid, max_abs, warning, chart, table, exception,
                   cache_history, cache_info, outlived, lastAccess, call>>

Raise(kind, line) ==
    /\ pc' = "error"
    /\ exception' = [kind |-> kind, line |-> line]

\* Line 144, fetch_history under st.cache_data (lines 81-94): the frame
\* cached for these arguments, else one yf.download, cached as returned.
\* With no symbol the provider either raises or returns an empty frame.
FetchHistory(histories) ==
    /\ pc = "fetch"
    /\ IF symbols \in DOMAIN cache_history
       THEN /\ raw' = cache_history[symbols]
            /\ lastAccess' = [fn |-> "fetch_history", key |-> symbols,
                              hit |-> TRUE,
                              outlived |-> symbols \in outlived.history]
            /\ pc' = "loop"
            /\ UNCHANGED <<cache_history, outlived, exception>>
       ELSE \/ /\ raw' \in [{symbols[k] : k \in 1..Len(symbols)} -> histories]
               /\ cache_history' = Put(cache_history, symbols, raw')
               /\ outlived' = [outlived EXCEPT !.history = @ \ {symbols}]
               /\ lastAccess' = [fn |-> "fetch_history", key |-> symbols,
                                 hit |-> FALSE, outlived |-> FALSE]
               /\ pc' = "loop"
               /\ UNCHANGED exception
            \/ /\ symbols = <<>>
               /\ Raise("ValueError", 144)
               /\ lastAccess' = [fn |-> "fetch_history", key |-> symbols,
                                 hit |-> FALSE, outlived |-> FALSE]
               /\ UNCHANGED <<raw, cache_history, outlived>>
    /\ UNCHANGED <<interval_label, tickers_selected, rows, valid, max_abs,
                   warning, chart, table, cache_info, call>>

\* Lines 149-156: the symbol's Close column, an empty Series on KeyError.
CloseOf(frame, sym) == IF sym \in DOMAIN frame THEN frame[sym] ELSE <<>>

\* Lines 147-177 for the next symbol: its return, its snapshot through
\* st.cache_data (lines 96-116), its market cap, and rows.append.
ProcessSymbol(fasts, infos) ==
    /\ pc = "loop"
    /\ Len(rows) < Len(symbols)
    /\ LET sym == symbols[Len(rows) + 1]
           ret == compute_return(PySeries(CloseOf(raw, sym)), lookback_days)
           hit == sym \in DOMAIN cache_info
       IN  \E fast \in fasts, info \in infos :
             LET fi == IF hit THEN cache_info[sym]
                       ELSE fetch_fast_info(fast, info)
                 cap == MarketCapOf(fi)
             IN  /\ cache_info' = IF hit THEN cache_info
                                  ELSE Put(cache_info, sym, fi)
                 /\ outlived' = IF hit THEN outlived
                                ELSE [outlived EXCEPT !.info = @ \ {sym}]
                 /\ lastAccess' = [fn |-> "fetch_fast_info", key |-> <<sym>>,
                                   hit |-> hit,
                                   outlived |-> hit /\ sym \in outlived.info]
                 /\ IF cap.raised # ""
                    THEN /\ Raise(cap.raised,
                                  IF cap.raised = "ValueError" THEN 170 ELSE 176)
                         /\ UNCHANGED rows
                    ELSE /\ rows' = Append(rows,
                                [Ticker |-> sym, Name |-> NameOf(sym),
                                 Return |-> ret, MarketCap |-> cap.mcap])
                         /\ UNCHANGED <<pc, exception>>
    /\ UNCHANGED <<interval_label, tickers_selected, raw, valid, max_abs,
                   warning, chart, table, cache_history, call>>

\* Line 183: the rows whose Return and MarketCap are both present.
notna(row) == row.Return # None /\ row.MarketCap.t # "nan"

\* Lines 180-187. DataFrame([]) has no columns, so dropna(subset=...) of a
\* run with no rows raises KeyError; an empty `valid` warns and stops.
Assemble ==
    /\ pc = "loop"
    /\ Len(rows) = Len(symbols)
    /\ IF rows = <<>>
       THEN /\ Raise("KeyError", 183)
            /\ UNCHANGED <<valid, warning>>
       ELSE /\ valid' = SelectSeq(rows, notna)
            /\ warning' = (valid' = <<>>)
            /\ pc' = IF valid' = <<>> THEN "stopped" ELSE "scale"
            /\ UNCHANGED exception
    /\ UNCHANGED <<interval_label, tickers_selected, raw, rows, max_abs, chart,
                   table, cache_history, cache_info, outlived, lastAccess,
                   call>>

\* Lines 190-193: the largest |Return|, 0.01 when that is 0.
MaxAbsReturn(df) ==
    CHOOSE m \in {RatAbs(df[k].Return) : k \in 1..Len(df)} :
        \A k \in 1..Len(df) : RatLeq(RatAbs(df[k].Return), m)
ScaleBoundNoFloor(df) == MaxAbsReturn(df)
ScaleBound(df) ==
    LET m == MaxAbsReturn(df)
    IN  IF m = Zero THEN <<1, 100>> ELSE m

\* Lines 196-197: the hover columns.
WithHover(row) ==
    [Ticker |-> row.Ticker, Name |-> row.Name, Return |-> row.Return,
     MarketCap |-> row.MarketCap,
     ReturnPct |-> Round2(<<row.Return[1] * 100, row.Return[2]>>),
     MarketCapBn |-> Round2(<<row.MarketCap.v, 1000000000>>)]

Scale ==
    /\ pc = "scale"
    /\ max_abs' = ScaleBound(valid)
    /\ valid' = [k \in 1..Len(valid) |-> WithHover(valid[k])]
    /\ pc' = "chart"
    /\ UNCHANGED <<interval_label, tickers_selected, raw, rows, warning, chart,
                   table, exception, cache_history, cache_info, outlived,
                   lastAccess, call>>

\* Lines 200-220: the treemap, sized by MarketCap and coloured by Return.
Chart ==
    /\ pc = "chart"
    /\ chart' = [shown |-> TRUE,
                 values |-> [k \in 1..Len(valid) |-> valid[k].MarketCap.v],
                 color |-> [k \in 1..Len(valid) |-> valid[k].Return],
                 range_color |-> <<RatNeg(max_abs), max_abs>>,
                 customdata |-> [k \in 1..Len(valid) |->
                     <<valid[k].Ticker, valid[k].ReturnPct,
                       valid[k].MarketCapBn>>]]
    /\ pc' = "table"
    /\ UNCHANGED <<interval_label, tickers_selected, raw, rows, valid, max_abs,
                   warning, table, exception, cache_history, cache_info,
                   outlived, lastAccess, call>>

\* Lines 224-228: the table's frame. A frame is its column names and its
\* rows, each row the values in column order.
show_cols == <<"Ticker", "Name", "ReturnPct", "MarketCapBn">>

Select(df) ==
    [columns |-> show_cols,
     rows |-> [k \in 1..Len(df) |->
                 <<df[k].Ticker, df[k].Name, df[k].ReturnPct,
                   df[k].MarketCapBn>>]]

rename(frame, label) ==
    [columns |-> [k \in 1..Len(frame.columns) |->
                    IF frame.columns[k] = "ReturnPct"
                    THEN "Return % (" \o label \o ")"
                    ELSE IF frame.columns[k] = "MarketCapBn"
                    THEN "Market Cap (B)"
                    ELSE frame.columns[k]],
     rows |-> frame.rows]

HasColumn(frame, by) == \E k \in 1..Len(frame.columns) : frame.columns[k] = by

RECURSIVE InsertDesc(_, _, _)
InsertDesc(x, sorted, c) ==
    IF sorted = <<>> THEN <<x>>
    ELSE IF RatLeq(Head(sorted)[c], x[c]) THEN <<x>> \o sorted
    ELSE <<Head(sorted)>> \o InsertDesc(x, Tail(sorted), c)

RECURSIVE SortDesc(_, _)
SortDesc(rs, c) ==
    IF rs = <<>> THEN <<>>
    ELSE InsertDesc(Head(rs), SortDesc(Tail(rs), c), c)

\* sort_values(by, ascending=False): KeyError when no column is named `by`.
sort_values(frame, by) ==
    IF ~HasColumn(frame, by) THEN [raised |-> "KeyError", frame |-> frame]
    ELSE LET c == CHOOSE k \in 1..Len(frame.columns) : frame.columns[k] = by
         IN  [raised |-> "",
              frame |-> [columns |-> frame.columns,
                         rows |-> SortDesc(frame.rows, c)]]

\* Lines 223-230: the data table under the chart.
Table ==
    /\ pc = "table"
    /\ LET sorted == sort_values(rename(Select(valid), interval_label),
                                 "MarketCapBn")
       IN  IF sorted.raised # ""
           THEN /\ Raise(sorted.raised, 228)
                /\ UNCHANGED table
           ELSE /\ table' = [shown |-> TRUE, frame |-> sorted.frame]
                /\ pc' = "done"
                /\ UNCHANGED exception
    /\ UNCHANGED <<interval_label, tickers_selected, raw, rows, valid, max_abs,
                   warning, chart, cache_history, cache_info, outlived,
                   lastAccess, call>>

Ended == pc \in {"done", "stopped", "error"}

\* A widget change or a new session reruns the script on the same process:
\* the run's own objects are new, the st.cache_data caches are kept.
Rerun ==
    /\ Ended
    /\ pc' = "sidebar"
    /\ raw' = NoFrame
    /\ rows' = <<>>
    /\ valid' = <<>>
    /\ max_abs' = None
    /\ warning' = FALSE
    /\ chart' = NoChart
    /\ table' = NoTable
    /\ exception' = NoException
    /\ UNCHANGED <<interval_label, tickers_selected, cache_history, cache_info,
                   outlived, lastAccess, call>>

\* The time-to-live of section 4.1 passes: every entry now cached is older
\* than it. (Lines 81 and 96 give st.cache_data no ttl.)
TTLElapses ==
    /\ outlived' = [history |-> DOMAIN cache_history,
                    info |-> DOMAIN cache_info]
    /\ outlived' # outlived
    /\ UNCHANGED <<pc, runVars, cache_history, cache_info, lastAccess, call>>

\* One script run from empty caches, over the wide feeds.
Next ==
    \/ Sidebar(Labels)
    \/ FetchHistory(HistoryChoices)
    \/ ProcessSymbol(FastChoices, InfoChoices)
    \/ Assemble
    \/ Scale
    \/ Chart
    \/ Table

Spec == Init /\ [][Next]_vars

\* Runs that follow one another on one process while time passes.
NextCache ==
    \/ Sidebar(FewLabels)
    \/ FetchHistory(FewHistories)
    \/ ProcessSymbol(FewFast, FewInfo)
    \/ Assemble
    \/ Scale
    \/ Chart
    \/ Table
    \/ Rerun
    \/ TTLElapses

CacheSpec == Init /\ [][NextCache]_vars

\* ------------------------------------------- direct calls (pure functions)
\* Every series over the dates 0..MaxDate: a date has no row (-2), a row
\* with a missing close (-1), or a row with a close in 0..MaxPrice.
RECURSIVE BuildSeries(_, _)
BuildSeries(f, d) ==
    IF d > MaxDate THEN <<>>
    ELSE LET rest == BuildSeries(f, d + 1)
         IN  IF f[d] = -2 THEN rest
             ELSE IF f[d] = -1 THEN <<Missing(d)>> \o rest
             ELSE <<P(d, f[d])>> \o rest

SeriesInputs == {BuildSeries(f, 0) : f \in [0..MaxDate -> -2..MaxPrice]}

FieldInputs == {PyNone, PyStr} \cup {PyNum(n) : n \in -1..MaxCap}
FastInputs ==
    {FastRaises} \cup
    [ok : {TRUE}, market_cap : FieldInputs, shares_outstanding : FieldInputs,
     last_price : FieldInputs]
InfoInputs ==
    {InfoRaises} \cup
    [ok : {TRUE}, marketCap : FieldInputs, sharesOutstanding : FieldInputs,
     regularMarketPrice : FieldInputs]

ReturnCalls ==
    [fn : {"compute_return"},
     series : {PyNoSeries} \cup {PySeries(s) : s \in SeriesInputs},
     days_back : 0..MaxDays, returned : {FALSE}, result : {None}]
CapCalls ==
    [fn : {"market_cap"}, fast : FastInputs, info : InfoInputs,
     returned : {FALSE}, result : {[raised |-> "", mcap |-> PyNone]}]

InitFn == InitRun /\ (call \in ReturnCalls \/ call \in CapCalls)

\* ret = compute_return(close_s, lookback_days), line 159.
CallComputeReturn ==
    /\ call.fn = "compute_return"
    /\ ~call.returned
    /\ call' = [call EXCEPT !.returned = TRUE,
                            !.result = compute_return(call.series,
                                                      call.days_back)]
    /\ UNCHANGED <<pc, runVars, cache_history, cache_info, outlived,
                   lastAccess>>

\* fetch_fast_info and lines 163-176 for one symbol's provider answers.
CallMarketCap ==
    /\ call.fn = "market_cap"
    /\ ~call.returned
    /\ call' = [call EXCEPT !.returned = TRUE,
                            !.result = MarketCapOf(
                                fetch_fast_info(call.fast, call.info))]
    /\ UNCHANGED <<pc, runVars, cache_history, cache_info, outlived,
                   lastAccess>>

NextFn == CallComputeReturn \/ CallMarketCap

FnSpec == InitFn /\ [][NextFn]_vars

\* ================================================================ claims

\* The points of a series whose close is present, as a set.
Points(s) == {s[k] : k \in {j \in 1..Len(s) : s[j].close # <<>>}}
LastPoint(pts) == CHOOSE p \in pts : \A q \in pts : q.date <= p.date
FirstPoint(pts) == CHOOSE p \in pts : \A q \in pts : p.date <= q.date
\* The point at the latest date <= target: no other point lies strictly
\* between it and target.
PastPoint(pts, target) ==
    CHOOSE p \in pts :
        /\ p.date <= target
        /\ \A q \in pts : ~(p.date < q.date /\ q.date <= target)

ReturnCallDone == call.fn = "compute_return" /\ call.returned
CallPoints == Points(call.series.data)
CallTarget == LastPoint(CallPoints).date - call.days_back

\* C1: for a series of at least 2 points and a lookback whose target date is
\* not earlier than the first date, compute_return returns exactly
\* (last_price / past_price) - 1, last_price the close at the maximum date and
\* past_price the close at the latest date <= target date, when past_price # 0.
C1_ReturnIsLastOverPastMinusOne ==
    (/\ ReturnCallDone
     /\ ~call.series.none
     /\ Cardinality(CallPoints) >= 2
     /\ FirstPoint(CallPoints).date <= CallTarget
     /\ PastPoint(CallPoints, CallTarget).close[1] # 0)
    => LET last_price == LastPoint(CallPoints).close[1]
           past_price == PastPoint(CallPoints, CallTarget).close[1]
       IN  call.result = Norm(last_price - past_price, past_price)

\* The case of the spec's first example: the target date falls between two
\* points, a later point lies before the last one, and the return is not 0.
C1_Witness ==
    /\ ReturnCallDone
    /\ ~call.series.none
    /\ Cardinality(CallPoints) >= 3
    /\ call.days_back > 0
    /\ FirstPoint(CallPoints).date <= CallTarget
    /\ PastPoint(CallPoints, CallTarget).date < CallTarget
    /\ \E q \in CallPoints :
           /\ CallTarget < q.date
           /\ q.date < LastPoint(CallPoints).date
           /\ q.close # PastPoint(CallPoints, CallTarget).close
    /\ call.result # None
    /\ call.result # Zero

\* The cases in which the claim says the return is unavailable.
Unavailable ==
    \/ call.series.none
    \/ CallPoints = {}
    \/ CallTarget < FirstPoint(CallPoints).date
    \/ PastPoint(CallPoints, CallTarget).close[1] = 0

\* C2: compute_return returns None when the series is absent or empty after
\* removing missing entries, when its earliest date is later than the target
\* date, or when the selected past price is 0; in every other case it returns
\* a number (and it never raises: every call returns).
C2_UnavailableExactlyWhen ==
    ReturnCallDone =>
        /\ (call.result = None) <=> Unavailable
        /\ call.result # None => (Len(call.result) = 2 /\ call.result[2] > 0)

\* The spec's second example: one point and a lookback of at least a day.
C2_Witness ==
    /\ ReturnCallDone
    /\ ~call.series.none
    /\ Cardinality(CallPoints) = 1
    /\ call.days_back >= 1
    /\ LastPoint(CallPoints).close[1] # 0
    /\ call.result = None

Selected == {symbols[k] : k \in 1..Len(symbols)}
RowOf(sym) == rows[CHOOSE k \in 1..Len(rows) : rows[k].Ticker = sym]
InValid(sym) == \E k \in 1..Len(valid) : valid[k].Ticker = sym
Processed(sym) == \E k \in 1..Len(rows) : rows[k].Ticker = sym
HasStr(fi) ==
    fi.market_cap.t = "str" \/ fi.shares_outstanding.t = "str"
        \/ fi.last_price.t = "str"

Pos(x) == x.t = "num" /\ x.v > 0

\* The resolution order as the claim states it.
ClaimedCap(fast, info) ==
    LET shares == IF fast.ok /\ Pos(fast.shares_outstanding)
                  THEN fast.shares_outstanding
                  ELSE IF info.ok THEN info.sharesOutstanding ELSE PyNone
        price == IF fast.ok /\ Pos(fast.last_price)
                 THEN fast.last_price
                 ELSE IF info.ok THEN info.regularMarketPrice ELSE PyNone
    IN  IF fast.ok /\ Pos(fast.market_cap) THEN fast.market_cap
        ELSE IF info.ok /\ Pos(info.marketCap) THEN info.marketCap
        ELSE IF Pos(shares) /\ Pos(price) THEN PyNum(shares.v * price.v)
        ELSE PyNaN

\* C4: the market cap is (1) the snapshot market_cap if present and > 0,
\* (2) else the extended-info marketCap if present and > 0, (3) else
\* shares_outstanding x last_price if both are present and > 0, (4) else
\* unavailable; a non-positive value at one step falls through to the next.
C4_ResolutionOrder ==
    (call.fn = "market_cap" /\ call.returned /\ call.result.raised = "")
        => call.result.mcap = ClaimedCap(call.fast, call.info)

\* C5: a failure affecting one symbol never aborts the request: every symbol
\* of the batch is processed, the failing one being excluded.
C5_SymbolFailureNeverAborts ==
    Ended => /\ exception.line \notin {170, 176}
             /\ \A sym \in Selected : Processed(sym)

\* C6: whenever the dataset is rendered, max_abs is > 0 and >= |Return| of
\* every included row: it is the largest |Return|, or 0.01 when that is 0.
C6_ScaleBound ==
    max_abs # None =>
        /\ max_abs[1] > 0 /\ max_abs[2] > 0
        /\ \A k \in 1..Len(valid) : RatLeq(RatAbs(valid[k].Return), max_abs)
        /\ \/ \E k \in 1..Len(valid) : RatAbs(valid[k].Return) = max_abs
           \/ /\ \A k \in 1..Len(valid) : valid[k].Return = Zero
              /\ max_abs = <<1, 100>>
        /\ chart.shown => chart.range_color = <<RatNeg(max_abs), max_abs>>

\* A chart whose bound comes from a negative return, next to a smaller one.
C6_Witness ==
    /\ chart.shown
    /\ \E j, k \in 1..Len(valid) :
          /\ valid[j].Return[1] < 0
          /\ RatAbs(valid[j].Return) = max_abs
          /\ RatAbs(valid[k].Return) # max_abs

\* C7: a cached gateway result expires with the time-to-live: once it has
\* elapsed, the next call with those arguments fetches afresh, so no call
\* (here: for at least one symbol) is served from the cache by an entry older
\* than the time-to-live.
C7_ExpiredEntryIsRefetched ==
    (lastAccess.hit /\ lastAccess.key # <<>>) => ~lastAccess.outlived

\* C8: every request ends in one of two outcomes: the warning, with no scale
\* bound, chart or table; or the chart and the table rendered from a
\* non-empty dataset, with no warning.
C8_WarningOrRendered ==
    Ended =>
        \/ /\ warning
           /\ valid = <<>>
           /\ max_abs = None
           /\ ~chart.shown
           /\ ~table.shown
        \/ /\ ~warning
           /\ valid # <<>>
           /\ chart.shown
           /\ table.shown

CapOfTicker(sym) == RowOf(sym).MarketCap.v

\* C10: the displayed table lists the included rows by market cap
\* descending: a row with the greater market cap is shown above.
C10_TableByCapDescending ==
    (Ended /\ chart.shown) =>
        /\ table.shown
        /\ Len(table.frame.rows) = Len(valid)
        /\ \A a, b \in 1..Len(table.frame.rows) :
              CapOfTicker(table.frame.rows[a][1])
                  > CapOfTicker(table.frame.rows[b][1]) => a < b

====
